---- MODULE Spec2Model ----
(***************************************************************************)
(* Real Estate CRM (src/app.py): the relational store (one variable per    *)
(* SQLAlchemy model, holding its rows), the flask-login sessions, the      *)
(* audit log, and one action per route handler.                            *)
(*                                                                         *)
(* A handler is one atomic action that sets resp, the response of the      *)
(* request it served; send_response returns the server to waiting.         *)
(* Handlers that commit the entity and then call log_activity (a second    *)
(* commit) are modelled by their final effect; a handler that raises after *)
(* its first commit keeps what that commit wrote and loses the rest.       *)
(***************************************************************************)
EXTENDS Integers, Sequences, FiniteSets, TLC

VARIABLES User, Client, Property, Deal, Interaction, Showing, Task, Activity,
          sessions, resp, quota, inflight

vars == <<User, Client, Property, Deal, Interaction, Showing, Task, Activity,
          sessions, resp, quota, inflight>>

\* The persistent store.
store == <<User, Client, Property, Deal, Interaction, Showing, Task, Activity>>

\* ------------------------------------------------------------------ bounds

\* Rows per table.
MaxUsers == 2
MaxClients == 1
MaxProperties == 1
MaxDeals == 1
MaxTasks == 1
MaxInteractions == 1
MaxShowings == 1

\* Activity rows a run may write (the initial value of quota).
MaxActivities == 4
MaxDealActivities == 5

\* Deals and Activity rows in the runs of the monthly report.
MaxReportDeals == 2
MaxReportActivities == 4

\* Clients, properties, interactions and showings, and Activity rows, in the
\* runs of the delete cascades.
MaxCascadeRows == 2
MaxCascadeActivities == 6

\* Activity rows in the runs of the staff routes.
MaxStaffActivities == 3

\* Accounts, requests between their check and their commit, and Activity
\* rows, in the runs of interleaved add_staff and edit_staff requests.
MaxRaceUsers == 3
MaxInFlight == 2
MaxRaceActivities == 1

\* Activity rows in the runs that call log_activity on its own.
MaxLogActivities == 3

\* Activity rows of a run of interleaved delete_staff requests.
MaxDeleteRaceActivities == 3

\* Tasks in the tables the dashboard is rendered over.
MaxDashboardTasks == 6

\* ------------------------------------------------------------------ values

\* SQL NULL / Python None in a nullable column.
NULL == -1

\* No acting user, no target id.
NoUser == 0
NoId == 0

\* The account init_db creates.
AdminUser ==
    [id |-> 1, username |-> "admin", email |-> "admin@estateflow.com",
     password |-> "admin123", role |-> "admin", is_active |-> TRUE]

\* Forms posted to add_staff: a new agent, a second admin, and a form that
\* repeats a username already taken.
StaffForms ==
    { [username |-> "agent", email |-> "agent@x", role |-> "staff"],
      [username |-> "boss",  email |-> "boss@x",  role |-> "admin"],
      [username |-> "admin", email |-> "other@x", role |-> "staff"] }

\* Forms posted to edit_staff: the add_staff forms and a promotion to
\* manager, with the is_active box ticked or not and no new password.
EditStaffForms ==
    [username : {"agent", "admin"}, email : {"agent@x", "admin@estateflow.com"},
     role : {"staff", "manager", "admin"}, is_active : {"on", ""},
     new_password : {""}]

\* Forms of the interleaved requests: the add_staff forms and one that
\* repeats the email of another under a new username; edit_staff forms that
\* rename an account to either.
RaceAddForms ==
    StaffForms \cup {[username |-> "agent2", email |-> "agent@x", role |-> "staff"]}

RaceEditForms ==
    [username : {"agent", "boss"}, email : {"agent@x", "boss@x"},
     role : {"staff"}, is_active : {"on"}, new_password : {""}]

NewPassword == "secret1"

\* new_password fields posted to reset_staff_password, and len(new_password).
ResetPasswords == {"", "wrong", NewPassword}

PasswordLength(password) ==
    CASE password = "" -> 0
      [] password = "wrong" -> 5
      [] password = "secret1" -> 7
      [] password = "admin123" -> 8

Passwords == {"admin123", NewPassword, "wrong"}

Usernames == {f.username : f \in StaffForms} \cup {"nobody"}

ClientStatuses == {"lead", "active"}

PropertyStatuses == {"available", "sold"}

\* Ids a request may name.
UserIds == 1..MaxUsers
ClientIds == 1..MaxClients
PropertyIds == 1..MaxProperties
DealIds == 1..MaxDeals
TaskIds == 1..MaxTasks

\* ----------------------------------------------------------------- helpers

Max(S) == CHOOSE x \in S : \A y \in S : y <= x

\* The INTEGER PRIMARY KEY of a new row: one more than the largest in the table.
NextId(T) == IF T = {} THEN 1 ELSE Max({r.id : r \in T}) + 1

\* Model.query.get(id): the row, if any.
Has(T, id) == \E r \in T : r.id = id

Get(T, id) == CHOOSE r \in T : r.id = id

\* current_user of a request: a user holding a session.  An account that
\* was deactivated while it held a session is kept among the actors, as
\* under a flask-login whose is_authenticated does not follow is_active;
\* under one where it does, such an account acts no more, which removes
\* behaviours and adds none.
Actors == {u \in User : u.id \in sessions}

\* User.is_admin
is_admin(u) == u.role = "admin"

\* The response of a request: the handler, the acting user, the id in the
\* URL, the id of the row it inserted, the outcome, and the ids it lists.
Response(op, uid, id, new, status, items) ==
    [op |-> op, user |-> uid, id |-> id, new |-> new, status |-> status,
     items |-> items]

Idle == Response("", NoUser, NoId, NoId, "", {})

\* The server is waiting for a request.
Ready == resp = Idle

\* A request that ends without touching the store or the sessions.
Reply(r) ==
    /\ resp' = r
    /\ UNCHANGED <<store, sessions, quota, inflight>>

\* log_activity that writes nothing.
log_activity_dropped(uid, action, entity_type, entity_id) == Activity

\* log_activity without the test of current_user.is_authenticated.
log_activity_unchecked(uid, action, entity_type, entity_id) ==
    Append(Activity, [user_id |-> uid, action |-> action,
                      entity_type |-> entity_type, entity_id |-> entity_id])

\* log_activity: no-op without an authenticated user, else one appended row.
log_activity(uid, action, entity_type, entity_id) ==
    IF uid # NoUser
    THEN Append(Activity, [user_id |-> uid, action |-> action,
                           entity_type |-> entity_type, entity_id |-> entity_id])
    ELSE Activity

\* A call of log_activity within the run's quota of Activity rows.
Logged(uid, action, entity_type, entity_id) ==
    /\ quota > 0
    /\ quota' = quota - 1
    /\ Activity' = log_activity(uid, action, entity_type, entity_id)
    /\ UNCHANGED inflight

\* log_activity called on its own, by a request whose current_user is
\* `current` (NoUser for the anonymous user); it returns None either way.
call_log_activity ==
    /\ Ready
    /\ \E current \in {NoUser} \cup sessions, entity_id \in {NULL, 1} :
        /\ Activity' = log_activity(current, "viewed", "client", entity_id)
        /\ current # NoUser => quota > 0
        /\ quota' = IF current # NoUser THEN quota - 1 ELSE quota
        /\ resp' = Response("log_activity", current, NoId, NoId, "ok", {})
        /\ UNCHANGED <<User, Client, Property, Deal, Interaction, Showing, Task,
                       sessions, inflight>>

\* -------------------------------------------------------------------- Init

\* The store after init_db.
InitStore ==
    /\ User = {AdminUser}
    /\ Client = {}
    /\ Property = {}
    /\ Deal = {}
    /\ Interaction = {}
    /\ Showing = {}
    /\ Task = {}
    /\ Activity = <<>>
    /\ sessions = {}
    /\ resp = Idle
    /\ inflight = <<>>

Init == InitStore /\ quota = MaxActivities

send_response ==
    /\ ~Ready
    /\ resp' = Idle
    /\ UNCHANGED <<store, sessions, quota, inflight>>

\* ------------------------------------------------------------ login/logout

\* login_user(user): flask-login refuses an account whose is_active is false.
login_user(u) == IF u.is_active THEN sessions \cup {u.id} ELSE sessions

\* A failure that tells an unknown username from a wrong password.
login_failed_naming_cause(found) ==
    Response("login", NoUser, NoId, NoId,
             IF found = {} THEN "unknown_user" ELSE "wrong_password", {})

\* flash('Invalid username or password') and the login page again, whatever
\* the lookup of the username found.
login_failed(found) == Response("login", NoUser, NoId, NoId, "invalid", {})

\* A login request of a browser whose current_user is `current` (NoUser when
\* it holds no session): a browser already logged in is sent to the
\* dashboard before the form is read.
Login(current, username, password) ==
    LET found == {u \in User : u.username = username} IN
    IF current # NoUser
    THEN Reply(Response("login", current, NoId, NoId, "redirect", {}))
    ELSE IF found # {} /\ (CHOOSE u \in found : TRUE).password = password
    THEN LET user == CHOOSE u \in found : TRUE IN
         /\ sessions' = login_user(user)
         /\ quota > 0
         /\ quota' = quota - 1
         /\ Activity' = Append(Activity,
                [user_id |-> user.id, action |-> "login",
                 entity_type |-> "session", entity_id |-> NULL])
         /\ resp' = Response("login", user.id, NoId, NoId, "ok", {})
         /\ UNCHANGED <<User, Client, Property, Deal, Interaction, Showing, Task,
                        inflight>>
    ELSE Reply(login_failed(found))

login ==
    /\ Ready
    /\ \E current \in {NoUser} \cup {u.id : u \in Actors},
          username \in Usernames, password \in Passwords :
        Login(current, username, password)

logout ==
    /\ Ready
    /\ \E u \in Actors :
        /\ Logged(u.id, "logout", "session", NULL)
        /\ sessions' = sessions \ {u.id}
        /\ resp' = Response("logout", u.id, NoId, NoId, "ok", {})
        /\ UNCHANGED <<User, Client, Property, Deal, Interaction, Showing, Task>>

\* ----------------------------------------------------------- client routes

\* Client.query.filter_by(agent_id=current_user.id), then the status filter.
ClientsFor(u, status_filter) ==
    {c \in Client : c.agent_id = u.id
                    /\ (status_filter = "" \/ c.status = status_filter)}

clients ==
    /\ Ready
    /\ \E u \in Actors, status_filter \in {"", "lead"} :
        Reply(Response("clients", u.id, NoId, NoId, "ok",
                       {c.id : c \in ClientsFor(u, status_filter)}))

\* The ownership check of the client handlers.
ClientDenied(c, u) == c.agent_id # u.id

\* The row add_client inserts.
NewClient(id, uid, status) == [id |-> id, agent_id |-> uid, status |-> status]

AddClient(limit) ==
    /\ Ready
    /\ \E u \in Actors, status \in {"lead"} :
        LET id == NextId(Client) IN
        /\ Cardinality(Client) < limit
        /\ Client' = Client \cup {NewClient(id, u.id, status)}
        /\ Logged(u.id, "created", "client", id)
        /\ resp' = Response("add_client", u.id, NoId, id, "ok", {})
        /\ UNCHANGED <<User, Property, Deal, Interaction, Showing, Task, sessions>>

add_client == AddClient(MaxClients)

view_client ==
    /\ Ready
    /\ \E u \in Actors, id \in ClientIds :
        IF ~Has(Client, id)
        THEN Reply(Response("view_client", u.id, id, NoId, "not_found", {}))
        ELSE IF ClientDenied(Get(Client, id), u)
        THEN Reply(Response("view_client", u.id, id, NoId, "denied", {}))
        ELSE Reply(Response("view_client", u.id, id, NoId, "ok",
                            {d.id : d \in {x \in Deal : x.client_id = id}}))

\* An edit that hands the client over to the administrator.
EditedClientReassigned(c, status) ==
    [c EXCEPT !.status = status, !.agent_id = AdminUser.id]

\* The row edit_client writes: the columns of the form, agent_id not among
\* them.
EditedClient(c, status) == [c EXCEPT !.status = status]

edit_client ==
    /\ Ready
    /\ \E u \in Actors, id \in ClientIds, status \in ClientStatuses :
        IF ~Has(Client, id)
        THEN Reply(Response("edit_client", u.id, id, NoId, "not_found", {}))
        ELSE IF ClientDenied(Get(Client, id), u)
        THEN Reply(Response("edit_client", u.id, id, NoId, "denied", {}))
        ELSE /\ Client' = (Client \ {Get(Client, id)})
                            \cup {EditedClient(Get(Client, id), status)}
             /\ Logged(u.id, "updated", "client", id)
             /\ resp' = Response("edit_client", u.id, id, NoId, "ok", {})
             /\ UNCHANGED <<User, Property, Deal, Interaction, Showing, Task, sessions>>

\* Deal.client_id and Deal.property_id are NOT NULL, and Client.deals and
\* Property.deals carry no delete cascade: deleting the parent makes the
\* session set the foreign key of each referencing Deal to NULL, which the
\* store rejects (IntegrityError), so the delete is rolled back.
DealForeignKeysNullable == FALSE

ClientDeleteRejected(id) ==
    ~DealForeignKeysNullable /\ \E d \in Deal : d.client_id = id

PropertyDeleteRejected(id) ==
    ~DealForeignKeysNullable /\ \E d \in Deal : d.property_id = id

\* A delete that leaves the client's interactions in the store.
InteractionsKept(id) == Interaction

\* Client.interactions has cascade='all, delete-orphan': the client's
\* interactions are deleted with it.
InteractionsAfterDelete(id) == {i \in Interaction : i.client_id # id}

DeleteClient(ids) ==
    /\ Ready
    /\ \E u \in Actors, id \in ids :
        IF ~Has(Client, id)
        THEN Reply(Response("delete_client", u.id, id, NoId, "not_found", {}))
        ELSE IF ClientDenied(Get(Client, id), u)
        THEN Reply(Response("delete_client", u.id, id, NoId, "denied", {}))
        ELSE IF ClientDeleteRejected(id)
        THEN Reply(Response("delete_client", u.id, id, NoId, "error", {}))
        ELSE /\ Client' = Client \ {Get(Client, id)}
             /\ Interaction' = InteractionsAfterDelete(id)
             /\ Deal' = {IF d.client_id = id THEN [d EXCEPT !.client_id = NULL] ELSE d
                         : d \in Deal}
             /\ Logged(u.id, "deleted", "client", id)
             /\ resp' = Response("delete_client", u.id, id, NoId, "ok", {})
             /\ UNCHANGED <<User, Property, Showing, Task, sessions>>

delete_client == DeleteClient(ClientIds)

AddInteraction(ids, limit) ==
    /\ Ready
    /\ \E u \in Actors, id \in ids :
        IF ~Has(Client, id)
        THEN Reply(Response("add_interaction", u.id, id, NoId, "not_found", {}))
        ELSE IF ClientDenied(Get(Client, id), u)
        THEN Reply(Response("add_interaction", u.id, id, NoId, "denied", {}))
        ELSE LET iid == NextId(Interaction) IN
             /\ Cardinality(Interaction) < limit
             /\ Interaction' = Interaction \cup {[id |-> iid, client_id |-> id]}
             /\ resp' = Response("add_interaction", u.id, id, iid, "ok", {})
             /\ UNCHANGED <<User, Client, Property, Deal, Showing, Task, Activity,
                            sessions, quota, inflight>>

add_interaction == AddInteraction(ClientIds, MaxInteractions)

\* --------------------------------------------------------- property routes

PropertiesFor(u, status_filter) ==
    {p \in Property : p.agent_id = u.id
                      /\ (status_filter = "" \/ p.status = status_filter)}

properties ==
    /\ Ready
    /\ \E u \in Actors, status_filter \in {"", "available"} :
        Reply(Response("properties", u.id, NoId, NoId, "ok",
                       {p.id : p \in PropertiesFor(u, status_filter)}))

\* The ownership check of the property handlers.
PropertyDenied(p, u) == p.agent_id # u.id

\* The row add_property inserts.
NewProperty(id, uid, status) == [id |-> id, agent_id |-> uid, status |-> status]

AddProperty(limit) ==
    /\ Ready
    /\ \E u \in Actors, status \in {"available"} :
        LET id == NextId(Property) IN
        /\ Cardinality(Property) < limit
        /\ Property' = Property \cup {NewProperty(id, u.id, status)}
        /\ Logged(u.id, "created", "property", id)
        /\ resp' = Response("add_property", u.id, NoId, id, "ok", {})
        /\ UNCHANGED <<User, Client, Deal, Interaction, Showing, Task, sessions>>

add_property == AddProperty(MaxProperties)

view_property ==
    /\ Ready
    /\ \E u \in Actors, id \in PropertyIds :
        IF ~Has(Property, id)
        THEN Reply(Response("view_property", u.id, id, NoId, "not_found", {}))
        ELSE IF PropertyDenied(Get(Property, id), u)
        THEN Reply(Response("view_property", u.id, id, NoId, "denied", {}))
        ELSE Reply(Response("view_property", u.id, id, NoId, "ok",
                            {s.id : s \in {x \in Showing : x.property_id = id}}))

\* The row edit_property writes: the columns of the form, agent_id not
\* among them.
EditedProperty(p, status) == [p EXCEPT !.status = status]

edit_property ==
    /\ Ready
    /\ \E u \in Actors, id \in PropertyIds, status \in PropertyStatuses :
        IF ~Has(Property, id)
        THEN Reply(Response("edit_property", u.id, id, NoId, "not_found", {}))
        ELSE IF PropertyDenied(Get(Property, id), u)
        THEN Reply(Response("edit_property", u.id, id, NoId, "denied", {}))
        ELSE /\ Property' = (Property \ {Get(Property, id)})
                              \cup {EditedProperty(Get(Property, id), status)}
             /\ Logged(u.id, "updated", "property", id)
             /\ resp' = Response("edit_property", u.id, id, NoId, "ok", {})
             /\ UNCHANGED <<User, Client, Deal, Interaction, Showing, Task, sessions>>

\* Property.showings has cascade='all, delete-orphan': the property's
\* showings are deleted with it.
ShowingsAfterDelete(id) == {s \in Showing : s.property_id # id}

DeleteProperty(ids) ==
    /\ Ready
    /\ \E u \in Actors, id \in ids :
        IF ~Has(Property, id)
        THEN Reply(Response("delete_property", u.id, id, NoId, "not_found", {}))
        ELSE IF PropertyDenied(Get(Property, id), u)
        THEN Reply(Response("delete_property", u.id, id, NoId, "denied", {}))
        ELSE IF PropertyDeleteRejected(id)
        THEN Reply(Response("delete_property", u.id, id, NoId, "error", {}))
        ELSE /\ Property' = Property \ {Get(Property, id)}
             /\ Showing' = ShowingsAfterDelete(id)
             /\ Deal' = {IF d.property_id = id THEN [d EXCEPT !.property_id = NULL]
                         ELSE d : d \in Deal}
             /\ Logged(u.id, "deleted", "property", id)
             /\ resp' = Response("delete_property", u.id, id, NoId, "ok", {})
             /\ UNCHANGED <<User, Client, Interaction, Task, sessions>>

delete_property == DeleteProperty(PropertyIds)

AddShowing(ids, limit) ==
    /\ Ready
    /\ \E u \in Actors, id \in ids :
        IF ~Has(Property, id)
        THEN Reply(Response("add_showing", u.id, id, NoId, "not_found", {}))
        ELSE IF PropertyDenied(Get(Property, id), u)
        THEN Reply(Response("add_showing", u.id, id, NoId, "denied", {}))
        ELSE LET sid == NextId(Showing) IN
             /\ Cardinality(Showing) < limit
             /\ Showing' = Showing
                    \cup {[id |-> sid, property_id |-> id, status |-> "scheduled"]}
             /\ Logged(u.id, "scheduled", "showing", sid)
             /\ resp' = Response("add_showing", u.id, id, sid, "ok", {})
             /\ UNCHANGED <<User, Client, Property, Deal, Interaction, Task, sessions>>

add_showing == AddShowing(PropertyIds, MaxShowings)

\* ------------------------------------------------------------- deal routes

\* float(text) of a form field.
FormFloat(text) ==
    CASE text = "0" -> 0
      [] text = "300000" -> 300000
      [] text = "310000" -> 310000

\* `a or b` taken as a test for None alone.
OrNone(a, b) == IF a = NULL THEN b ELSE a

\* Python truthiness of a number or None, and `a or b`.
Falsy(x) == x = NULL \/ x = 0

Or(a, b) == IF Falsy(a) THEN b ELSE a

\* final_price or offer_price or 0
DealPrice(d) == Or(Or(d.final_price, d.offer_price), 0)

\* Deal.commission_amount.  Amounts are whole numbers and the rates whole
\* percents; the prices used are multiples of 100, so the division is exact.
commission_amount(d) ==
    IF ~Falsy(DealPrice(d)) THEN (DealPrice(d) * d.commission_rate) \div 100 ELSE 0

\* Forms posted to add_deal and edit_deal; a field left empty is "".
DealForms ==
    [client_id : ClientIds, property_id : PropertyIds,
     status : {"initiated", "closed"},
     offer_price : {"300000"}, final_price : {""}, commission_rate : {""},
     closing_date : {""}]

\* The same with the price fields varied.
PriceForms ==
    [client_id : ClientIds, property_id : PropertyIds,
     status : {"initiated"},
     offer_price : {"", "300000"}, final_price : {"", "0", "310000"},
     commission_rate : {"", "0"}, closing_date : {""}]

\* The same with closing dates at the edges of months and of the year.
DatedForms ==
    [client_id : ClientIds, property_id : PropertyIds,
     status : {"initiated", "closed"},
     offer_price : {"300000"}, final_price : {""}, commission_rate : {""},
     closing_date : {"", "2026-01-31", "2026-02-01", "2026-12-31", "2027-01-01"}]

\* A date as the number yyyymmdd, whose order is the order of dates, and
\* datetime.strptime(text, '%Y-%m-%d').date() of a form field.
date(year, month, day) == year * 10000 + month * 100 + day

YearOf(d) == d \div 10000

DayOf(d) == d % 100

strptime(text) ==
    CASE text = "2026-01-31" -> date(2026, 1, 31)
      [] text = "2026-02-01" -> date(2026, 2, 1)
      [] text = "2026-12-31" -> date(2026, 12, 31)
      [] text = "2027-01-01" -> date(2027, 1, 1)

\* The order of dates: a < b and a >= b.
DateLT(a, b) == a < b

DateGE(a, b) == ~DateLT(a, b)

\* The Deal columns the handlers compute from the form.
DealFromForm(id, f) ==
    [id |-> id,
     client_id |-> f.client_id,
     property_id |-> f.property_id,
     status |-> f.status,
     offer_price |-> IF f.offer_price = "" THEN 0 ELSE FormFloat(f.offer_price),
     final_price |-> IF f.final_price = "" THEN NULL ELSE FormFloat(f.final_price),
     commission_rate |-> IF f.commission_rate = "" THEN 3
                         ELSE FormFloat(f.commission_rate),
     closing_date |-> IF f.closing_date = "" THEN NULL
                      ELSE strptime(f.closing_date)]

\* The deal listing without the join on the client's agent.
DealsOfAnyAgent(u, status_filter) ==
    {d \in Deal : status_filter = "" \/ d.status = status_filter}

\* Deal.query.join(Client).filter(Client.agent_id == current_user.id)
DealsFor(u, status_filter) ==
    {d \in Deal : /\ \E c \in Client : c.id = d.client_id /\ c.agent_id = u.id
                  /\ (status_filter = "" \/ d.status = status_filter)}

deals ==
    /\ Ready
    /\ \E u \in Actors, status_filter \in {"", "closed"} :
        Reply(Response("deals", u.id, NoId, NoId, "ok",
                       {d.id : d \in DealsFor(u, status_filter)}))

\* add_deal makes no check of the form's client_id and property_id.  The row
\* is committed first; log_activity's arguments then read deal.property.title
\* and deal.client.full_name, which raises when either row is missing.
AddDeal(forms, limit) ==
    /\ Ready
    /\ \E u \in Actors, f \in forms :
        LET id == NextId(Deal) IN
        /\ Cardinality(Deal) < limit
        /\ Deal' = Deal \cup {DealFromForm(id, f)}
        /\ IF Has(Property, f.property_id) /\ Has(Client, f.client_id)
           THEN /\ Logged(u.id, "created", "deal", id)
                /\ resp' = Response("add_deal", u.id, NoId, id, "ok", {})
           ELSE /\ UNCHANGED <<Activity, quota, inflight>>
                /\ resp' = Response("add_deal", u.id, NoId, id, "error", {})
        /\ UNCHANGED <<User, Client, Property, Interaction, Showing, Task, sessions>>

add_deal == AddDeal(DealForms, MaxDeals)

\* edit_deal without its ownership check.
DealNeverDenied(d, u) == FALSE

\* The ownership check of edit_deal: the agent of the deal's client.
DealDenied(d, u) == Get(Client, d.client_id).agent_id # u.id

\* edit_deal reads deal.client.agent_id, which raises when the client row is
\* missing; after its commit it reads deal.property.title for log_activity.
EditDeal(forms, ids) ==
    /\ Ready
    /\ \E u \in Actors, id \in ids, f \in forms :
        IF ~Has(Deal, id)
        THEN Reply(Response("edit_deal", u.id, id, NoId, "not_found", {}))
        ELSE IF ~Has(Client, Get(Deal, id).client_id)
        THEN Reply(Response("edit_deal", u.id, id, NoId, "error", {}))
        ELSE IF DealDenied(Get(Deal, id), u)
        THEN Reply(Response("edit_deal", u.id, id, NoId, "denied", {}))
        ELSE /\ Deal' = (Deal \ {Get(Deal, id)}) \cup {DealFromForm(id, f)}
             /\ IF Has(Property, f.property_id)
                THEN /\ Logged(u.id,
                            IF Get(Deal, id).status # f.status
                            THEN "status_change" ELSE "updated", "deal", id)
                     /\ resp' = Response("edit_deal", u.id, id, NoId, "ok", {})
                ELSE /\ UNCHANGED <<Activity, quota, inflight>>
                     /\ resp' = Response("edit_deal", u.id, id, NoId, "error", {})
             /\ UNCHANGED <<User, Client, Property, Interaction, Showing, Task,
                            sessions>>

edit_deal == EditDeal(DealForms, DealIds)

\* ------------------------------------------------------------- task routes

\* datetime.utcnow() as written to Task.completed_at.
Now == 1

TasksFor(u, status_filter) ==
    {t \in Task : t.user_id = u.id
                  /\ (status_filter = "" \/ t.status = status_filter)}

tasks ==
    /\ Ready
    /\ \E u \in Actors, status_filter \in {"", "pending"} :
        Reply(Response("tasks", u.id, NoId, NoId, "ok",
                       {t.id : t \in TasksFor(u, status_filter)}))

\* The ownership check of the task handlers.
TaskDenied(t, u) == t.user_id # u.id

\* The due_date field of the task form: left empty, and two datetimes.
TaskForms == {""}

DueForms == {"", "2026-01-31T09:00", "2026-02-01T09:00"}

\* A datetime as a number whose order is the order of datetimes (years
\* counted from 2026), and datetime.strptime(text, '%Y-%m-%dT%H:%M') of the
\* due_date field.
datetime(year, month, day, hour, minute) ==
    ((((year - 2026) * 100 + month) * 100 + day) * 100 + hour) * 100 + minute

strptime_due_date(text) ==
    CASE text = "2026-01-31T09:00" -> datetime(2026, 1, 31, 9, 0)
      [] text = "2026-02-01T09:00" -> datetime(2026, 2, 1, 9, 0)

\* A row whose completed_at defaults to the time of insertion, as
\* created_at does.
NewTaskCompletedAtDefault(id, uid, due_date) ==
    [id |-> id, user_id |-> uid, status |-> "pending", completed_at |-> Now,
     due_date |-> IF due_date = "" THEN NULL ELSE strptime_due_date(due_date)]

\* The row add_task inserts: status takes its default, completed_at none.
NewTask(id, uid, due_date) ==
    [id |-> id, user_id |-> uid, status |-> "pending", completed_at |-> NULL,
     due_date |-> IF due_date = "" THEN NULL ELSE strptime_due_date(due_date)]

\* add_task with the due dates of `forms`, in a table of at most `limit` rows.
AddTask(forms, limit) ==
    /\ Ready
    /\ \E u \in Actors, due_date \in forms :
        LET id == NextId(Task) IN
        /\ Cardinality(Task) < limit
        /\ Task' = Task \cup {NewTask(id, u.id, due_date)}
        /\ Logged(u.id, "created", "task", id)
        /\ resp' = Response("add_task", u.id, NoId, id, "ok", {})
        /\ UNCHANGED <<User, Client, Property, Deal, Interaction, Showing, sessions>>

add_task == AddTask(TaskForms, MaxTasks)

\* A toggle that leaves completed_at as it was when the task is reopened.
ToggledKeepingCompletedAt(t) ==
    IF t.status = "completed"
    THEN [t EXCEPT !.status = "pending"]
    ELSE [t EXCEPT !.status = "completed", !.completed_at = Now]

\* The row toggle_task writes: a completed task is reopened, any other
\* task is completed at the current time.
Toggled(t) ==
    IF t.status = "completed"
    THEN [t EXCEPT !.status = "pending", !.completed_at = NULL]
    ELSE [t EXCEPT !.status = "completed", !.completed_at = Now]

\* toggle_task on a task named by one of `ids`.
ToggleTask(ids) ==
    /\ Ready
    /\ \E u \in Actors, id \in ids :
        IF ~Has(Task, id)
        THEN Reply(Response("toggle_task", u.id, id, NoId, "not_found", {}))
        ELSE IF TaskDenied(Get(Task, id), u)
        THEN Reply(Response("toggle_task", u.id, id, NoId, "denied", {}))
        ELSE /\ Task' = (Task \ {Get(Task, id)}) \cup {Toggled(Get(Task, id))}
             /\ Logged(u.id, "status_change", "task", id)
             /\ resp' = Response("toggle_task", u.id, id, NoId, "ok", {})
             /\ UNCHANGED <<User, Client, Property, Deal, Interaction, Showing,
                            sessions>>

toggle_task == ToggleTask(TaskIds)

delete_task ==
    /\ Ready
    /\ \E u \in Actors, id \in TaskIds :
        IF ~Has(Task, id)
        THEN Reply(Response("delete_task", u.id, id, NoId, "not_found", {}))
        ELSE IF TaskDenied(Get(Task, id), u)
        THEN Reply(Response("delete_task", u.id, id, NoId, "denied", {}))
        ELSE /\ Task' = Task \ {Get(Task, id)}
             /\ Logged(u.id, "deleted", "task", id)
             /\ resp' = Response("delete_task", u.id, id, NoId, "ok", {})
             /\ UNCHANGED <<User, Client, Property, Deal, Interaction, Showing,
                            sessions>>

\* ---------------------------------------------------------------- dashboard

\* .limit(5) of the dashboard's lists.
UpcomingLimit == 5

\* ORDER BY due_date in SQLite: a sorts strictly before b.  NULL sorts
\* before every datetime.
DueBefore(a, b) ==
    IF a = NULL THEN b # NULL
    ELSE b # NULL /\ a < b

\* The orders in which ORDER BY due_date may return the rows of S: rows
\* with equal due_date come in any order.
RECURSIVE OrderedByDueDate(_)
OrderedByDueDate(S) ==
    IF S = {} THEN {<<>>}
    ELSE UNION {{<<t>> \o rest : rest \in OrderedByDueDate(S \ {t})} :
                t \in {x \in S : \A y \in S : ~DueBefore(y.due_date, x.due_date)}}

\* .limit(n): the first n rows.
Limit(rows, n) == SubSeq(rows, 1, IF Len(rows) < n THEN Len(rows) ELSE n)

\* The results upcoming_tasks may hold for current_user u.
upcoming_tasks(u) ==
    {Limit(rows, UpcomingLimit) :
        rows \in OrderedByDueDate({t \in Task : /\ t.user_id = u.id
                                                /\ t.status # "completed"})}

\* A list as the response carries it: the ids with their positions.
Listed(rows) == {[pos |-> i, id |-> rows[i].id] : i \in 1..Len(rows)}

\* dashboard: of the figures and lists it renders, the response here carries
\* upcoming_tasks; the handler writes nothing.
dashboard ==
    /\ Ready
    /\ \E u \in Actors :
        \E rows \in upcoming_tasks(u) :
            Reply(Response("dashboard", u.id, NoId, NoId, "ok", Listed(rows)))

\* ----------------------------------------------------------- report routes

\* datetime.utcnow().year at the time of a request.
Years == {2026, 2027}

\* sum(... for deal in deals)
RECURSIVE SumPrice(_)
SumPrice(S) ==
    IF S = {} THEN 0
    ELSE LET d == CHOOSE x \in S : TRUE IN DealPrice(d) + SumPrice(S \ {d})

RECURSIVE SumCommission(_)
SumCommission(S) ==
    IF S = {} THEN 0
    ELSE LET d == CHOOSE x \in S : TRUE IN
         commission_amount(d) + SumCommission(S \ {d})

\* The month's interval: [start_date, end_date).
start_date(current_year, month) == date(current_year, month, 1)

end_date(current_year, month) ==
    IF month = 12 THEN date(current_year + 1, 1, 1)
    ELSE date(current_year, month + 1, 1)

\* The month's query with the interval closed at end_date.
MonthDealsThroughEnd(u, current_year, month) ==
    {d \in Deal :
        /\ \E c \in Client : c.id = d.client_id /\ c.agent_id = u.id
        /\ d.status = "closed"
        /\ d.closing_date # NULL
        /\ DateGE(d.closing_date, start_date(current_year, month))
        /\ ~DateLT(end_date(current_year, month), d.closing_date)}

\* The month's query: the user's closed deals with start_date <=
\* closing_date < end_date.  A comparison with a NULL closing_date is not true.
MonthDeals(u, current_year, month) ==
    {d \in Deal :
        /\ \E c \in Client : c.id = d.client_id /\ c.agent_id = u.id
        /\ d.status = "closed"
        /\ d.closing_date # NULL
        /\ DateGE(d.closing_date, start_date(current_year, month))
        /\ DateLT(d.closing_date, end_date(current_year, month))}

monthly_data(u, current_year) ==
    {[year |-> current_year,
      month |-> month,
      total_sales |-> SumPrice(MonthDeals(u, current_year, month)),
      commission |-> SumCommission(MonthDeals(u, current_year, month)),
      deals |-> Cardinality(MonthDeals(u, current_year, month))] :
        month \in 1..12}

reports ==
    /\ Ready
    /\ \E u \in Actors, current_year \in Years :
        Reply(Response("reports", u.id, NoId, NoId, "ok",
                       monthly_data(u, current_year)))

\* ------------------------------------------------------------ staff routes

\* The check of manager_required in the place of admin_required.
ManagerDenied(u) == u.role \notin {"admin", "manager"}

\* admin_required
AdminDenied(u) == ~is_admin(u)

add_staff ==
    /\ Ready
    /\ \E u \in Actors, f \in StaffForms :
        IF AdminDenied(u)
        THEN Reply(Response("add_staff", u.id, NoId, NoId, "denied", {}))
        ELSE IF \/ \E m \in User : m.username = f.username
                \/ \E m \in User : m.email = f.email
        THEN Reply(Response("add_staff", u.id, NoId, NoId, "invalid", {}))
        ELSE LET id == NextId(User) IN
             /\ Cardinality(User) < MaxUsers
             /\ User' = User \cup
                    {[id |-> id, username |-> f.username, email |-> f.email,
                      password |-> NewPassword, role |-> f.role,
                      is_active |-> TRUE]}
             /\ resp' = Response("add_staff", u.id, NoId, id, "ok", {})
             /\ UNCHANGED <<Client, Property, Deal, Interaction, Showing, Task,
                            Activity, sessions, quota, inflight>>

\* staff_list: every account but the caller's own, by status.
staff_list ==
    /\ Ready
    /\ \E u \in Actors, status_filter \in {"", "active", "inactive"} :
        IF AdminDenied(u)
        THEN Reply(Response("staff_list", u.id, NoId, NoId, "denied", {}))
        ELSE Reply(Response("staff_list", u.id, NoId, NoId, "ok",
                {m.id : m \in {m \in User :
                    /\ m.id # u.id
                    /\ status_filter = "active" => m.is_active
                    /\ status_filter = "inactive" => ~m.is_active}}))

view_staff ==
    /\ Ready
    /\ \E u \in Actors, id \in UserIds :
        IF AdminDenied(u)
        THEN Reply(Response("view_staff", u.id, id, NoId, "denied", {}))
        ELSE IF ~Has(User, id)
        THEN Reply(Response("view_staff", u.id, id, NoId, "not_found", {}))
        ELSE Reply(Response("view_staff", u.id, id, NoId, "ok", {}))

\* The duplicate check of edit_staff: a username or email that differs from
\* the member's own and is held by some account.
EditDuplicate(member, f) ==
    \/ f.username # member.username /\ \E m \in User : m.username = f.username
    \/ f.email # member.email /\ \E m \in User : m.email = f.email

\* The row edit_staff writes.
Edited(member, f) ==
    [member EXCEPT !.username = f.username,
                   !.email = f.email,
                   !.role = f.role,
                   !.is_active = (f.is_active = "on"),
                   !.password = IF f.new_password # "" THEN f.new_password ELSE @]

edit_staff ==
    /\ Ready
    /\ \E u \in Actors, id \in UserIds, f \in EditStaffForms :
        IF AdminDenied(u)
        THEN Reply(Response("edit_staff", u.id, id, NoId, "denied", {}))
        ELSE IF ~Has(User, id)
        THEN Reply(Response("edit_staff", u.id, id, NoId, "not_found", {}))
        ELSE IF EditDuplicate(Get(User, id), f)
        THEN Reply(Response("edit_staff", u.id, id, NoId, "invalid", {}))
        ELSE /\ User' = (User \ {Get(User, id)}) \cup {Edited(Get(User, id), f)}
             /\ resp' = Response("edit_staff", u.id, id, NoId, "ok", {})
             /\ UNCHANGED <<Client, Property, Deal, Interaction, Showing, Task,
                            Activity, sessions, quota, inflight>>

\* ---- add_staff and edit_staff as two steps each, for requests served by
\* ---- concurrent threads: the checks and the assignments, then the commit.

\* User.username and User.email declared without unique=True.
UserColumnsNotUnique == FALSE

\* User.username and User.email are declared unique=True.
UserColumnsUnique == TRUE

\* The store rejects a write (IntegrityError) that would leave the row with
\* the username or the email of another row.
UniqueViolation(row) ==
    /\ UserColumnsUnique
    /\ \E m \in User : /\ m.id # row.id
                       /\ m.username = row.username \/ m.email = row.email

\* The sequence without its i-th element.
Without(seq, i) == SubSeq(seq, 1, i - 1) \o SubSeq(seq, i + 1, Len(seq))

\* add_staff up to db.session.add(user): the role check and the two lookups.
add_staff_begin ==
    /\ Ready
    /\ \E u \in Actors, f \in RaceAddForms :
        IF AdminDenied(u)
        THEN Reply(Response("add_staff", u.id, NoId, NoId, "denied", {}))
        ELSE IF \/ \E m \in User : m.username = f.username
                \/ \E m \in User : m.email = f.email
        THEN Reply(Response("add_staff", u.id, NoId, NoId, "invalid", {}))
        ELSE /\ Len(inflight) < MaxInFlight
             /\ Cardinality(User) + Len(inflight) < MaxRaceUsers
             /\ inflight' = Append(inflight,
                    [op |-> "add_staff", user |-> u.id, id |-> NoId, form |-> f,
                     member |-> NULL])
             /\ UNCHANGED <<store, sessions, resp, quota>>

\* db.session.commit() of add_staff: the INSERT.
add_staff_commit ==
    /\ Ready
    /\ \E i \in 1..Len(inflight) :
        LET r == inflight[i]
            row == [id |-> NextId(User), username |-> r.form.username,
                    email |-> r.form.email, password |-> NewPassword,
                    role |-> r.form.role, is_active |-> TRUE] IN
        /\ r.op = "add_staff"
        /\ inflight' = Without(inflight, i)
        /\ IF UniqueViolation(row)
           THEN /\ resp' = Response("add_staff", r.user, NoId, NoId, "error", {})
                /\ UNCHANGED User
           ELSE /\ resp' = Response("add_staff", r.user, NoId, row.id, "ok", {})
                /\ User' = User \cup {row}
        /\ UNCHANGED <<Client, Property, Deal, Interaction, Showing, Task,
                       Activity, sessions, quota>>

\* edit_staff up to the assignments to member: the role check, the load of
\* the row and the two lookups.
edit_staff_begin ==
    /\ Ready
    /\ \E u \in Actors, id \in 1..MaxRaceUsers, f \in RaceEditForms :
        IF AdminDenied(u)
        THEN Reply(Response("edit_staff", u.id, id, NoId, "denied", {}))
        ELSE IF ~Has(User, id)
        THEN Reply(Response("edit_staff", u.id, id, NoId, "not_found", {}))
        ELSE IF EditDuplicate(Get(User, id), f)
        THEN Reply(Response("edit_staff", u.id, id, NoId, "invalid", {}))
        ELSE /\ Len(inflight) < MaxInFlight
             /\ inflight' = Append(inflight,
                    [op |-> "edit_staff", user |-> u.id, id |-> id, form |-> f,
                     member |-> Get(User, id)])
             /\ UNCHANGED <<store, sessions, resp, quota>>

\* The UPDATE the session flushes: the columns whose new value differs from
\* the value the request loaded, written over the row as it is now.
Flushed(current, loaded, new) ==
    [column \in DOMAIN current |->
        IF new[column] # loaded[column] THEN new[column] ELSE current[column]]

\* db.session.commit() of edit_staff: the UPDATE of the loaded row.
edit_staff_commit ==
    /\ Ready
    /\ \E i \in 1..Len(inflight) :
        LET r == inflight[i] IN
        /\ r.op = "edit_staff"
        /\ inflight' = Without(inflight, i)
        /\ IF ~Has(User, r.id)
           THEN /\ resp' = Response("edit_staff", r.user, r.id, NoId, "error", {})
                /\ UNCHANGED User
           ELSE LET row == Flushed(Get(User, r.id), r.member,
                                   Edited(r.member, r.form)) IN
                IF UniqueViolation(row)
                THEN /\ resp' = Response("edit_staff", r.user, r.id, NoId, "error", {})
                     /\ UNCHANGED User
                ELSE /\ resp' = Response("edit_staff", r.user, r.id, NoId, "ok", {})
                     /\ User' = (User \ {Get(User, r.id)}) \cup {row}
        /\ UNCHANGED <<Client, Property, Deal, Interaction, Showing, Task,
                       Activity, sessions, quota>>

\* A toggle that only ever activates.
StatusSetActive(member) == [member EXCEPT !.is_active = TRUE]

\* member.is_active = not member.is_active
StatusToggled(member) == [member EXCEPT !.is_active = ~member.is_active]

toggle_staff_status ==
    /\ Ready
    /\ \E u \in Actors, id \in UserIds :
        IF AdminDenied(u)
        THEN Reply(Response("toggle_staff_status", u.id, id, NoId, "denied", {}))
        ELSE IF ~Has(User, id)
        THEN Reply(Response("toggle_staff_status", u.id, id, NoId, "not_found", {}))
        ELSE /\ User' = (User \ {Get(User, id)}) \cup {StatusToggled(Get(User, id))}
             /\ resp' = Response("toggle_staff_status", u.id, id, NoId, "ok", {})
             /\ UNCHANGED <<Client, Property, Deal, Interaction, Showing, Task,
                            Activity, sessions, quota, inflight>>

\* delete_staff without the check of the caller's own account.
NeverOwnAccount(member, u) == FALSE

\* member.id == current_user.id
IsOwnAccount(member, u) == member.id = u.id

\* The check of delete_staff without has_properties.
HasClientsOnly(m) == \E c \in Client : c.agent_id = m.id

\* has_clients or has_properties
HasOwnedData(m) ==
    \/ \E c \in Client : c.agent_id = m.id
    \/ \E p \in Property : p.agent_id = m.id

\* Activity.user_id declared nullable.
ActivityUserIdDeclaredNullable == TRUE

\* Activity.user_id is NOT NULL and User.activities (the backref) carries no
\* delete cascade: deleting a user makes the session set user_id of each of
\* the user's Activity rows to NULL, which the store rejects (IntegrityError),
\* so the delete is rolled back.
ActivityUserIdNullable == FALSE

\* A delete that the store never rejects.
StaffDeleteNeverRejected(m) == FALSE

StaffDeleteRejected(m) ==
    ~ActivityUserIdNullable
    /\ \E i \in 1..Len(Activity) : Activity[i].user_id = m.id

\* db.session.delete(member): the foreign keys of the rows that reference the
\* user through User.tasks, User.clients, User.properties and User.activities
\* are set to NULL.
delete_staff ==
    /\ Ready
    /\ \E u \in Actors, id \in UserIds :
        IF AdminDenied(u)
        THEN Reply(Response("delete_staff", u.id, id, NoId, "denied", {}))
        ELSE IF ~Has(User, id)
        THEN Reply(Response("delete_staff", u.id, id, NoId, "not_found", {}))
        ELSE IF IsOwnAccount(Get(User, id), u)
        THEN Reply(Response("delete_staff", u.id, id, NoId, "refused", {}))
        ELSE IF HasOwnedData(Get(User, id))
        THEN Reply(Response("delete_staff", u.id, id, NoId, "conflict", {}))
        ELSE IF StaffDeleteRejected(Get(User, id))
        THEN Reply(Response("delete_staff", u.id, id, NoId, "error", {}))
        ELSE /\ User' = User \ {Get(User, id)}
             /\ Task' = {IF t.user_id = id THEN [t EXCEPT !.user_id = NULL] ELSE t
                         : t \in Task}
             /\ Client' = {IF c.agent_id = id THEN [c EXCEPT !.agent_id = NULL]
                           ELSE c : c \in Client}
             /\ Property' = {IF p.agent_id = id THEN [p EXCEPT !.agent_id = NULL]
                             ELSE p : p \in Property}
             /\ Activity' = [i \in 1..Len(Activity) |->
                    IF Activity[i].user_id = id
                    THEN [Activity[i] EXCEPT !.user_id = NULL] ELSE Activity[i]]
             /\ resp' = Response("delete_staff", u.id, id, NoId, "ok", {})
             /\ UNCHANGED <<Deal, Interaction, Showing, sessions, quota, inflight>>

\* ---- delete_staff as three steps, for requests served by concurrent
\* ---- threads: the role check, the load of the row and the check of the
\* ---- caller's own account; the check of owned data; the delete and commit.

delete_staff_begin ==
    /\ Ready
    /\ \E u \in Actors, id \in UserIds :
        IF AdminDenied(u)
        THEN Reply(Response("delete_staff", u.id, id, NoId, "denied", {}))
        ELSE IF ~Has(User, id)
        THEN Reply(Response("delete_staff", u.id, id, NoId, "not_found", {}))
        ELSE IF IsOwnAccount(Get(User, id), u)
        THEN Reply(Response("delete_staff", u.id, id, NoId, "refused", {}))
        ELSE /\ Len(inflight) < MaxInFlight
             /\ inflight' = Append(inflight,
                    [op |-> "delete_staff", user |-> u.id, id |-> id,
                     step |-> "owned_data", member |-> Get(User, id)])
             /\ UNCHANGED <<store, sessions, resp, quota>>

\* has_clients and has_properties, queried by the id of the loaded row.
delete_staff_check ==
    /\ Ready
    /\ \E i \in 1..Len(inflight) :
        LET r == inflight[i] IN
        /\ r.op = "delete_staff"
        /\ r.step = "owned_data"
        /\ IF HasOwnedData(r.member)
           THEN /\ inflight' = Without(inflight, i)
                /\ resp' = Response("delete_staff", r.user, r.id, NoId, "conflict", {})
           ELSE /\ inflight' = [inflight EXCEPT ![i].step = "delete"]
                /\ UNCHANGED resp
        /\ UNCHANGED <<store, sessions, quota>>

\* db.session.delete(member) and db.session.commit(): the flush fails when
\* the row is gone by now (StaleDataError) or when an Activity row names the
\* user (IntegrityError), and the request ends with an error.
delete_staff_commit ==
    /\ Ready
    /\ \E i \in 1..Len(inflight) :
        LET r == inflight[i] IN
        /\ r.op = "delete_staff"
        /\ r.step = "delete"
        /\ inflight' = Without(inflight, i)
        /\ IF ~Has(User, r.id) \/ StaffDeleteRejected(r.member)
           THEN /\ resp' = Response("delete_staff", r.user, r.id, NoId, "error", {})
                /\ UNCHANGED <<User, Task, Client, Property, Activity>>
           ELSE /\ User' = User \ {Get(User, r.id)}
                /\ Task' = {IF t.user_id = r.id THEN [t EXCEPT !.user_id = NULL]
                            ELSE t : t \in Task}
                /\ Client' = {IF c.agent_id = r.id THEN [c EXCEPT !.agent_id = NULL]
                              ELSE c : c \in Client}
                /\ Property' = {IF p.agent_id = r.id
                                THEN [p EXCEPT !.agent_id = NULL]
                                ELSE p : p \in Property}
                /\ Activity' = [j \in 1..Len(Activity) |->
                       IF Activity[j].user_id = r.id
                       THEN [Activity[j] EXCEPT !.user_id = NULL] ELSE Activity[j]]
                /\ resp' = Response("delete_staff", r.user, r.id, NoId, "ok", {})
        /\ UNCHANGED <<Deal, Interaction, Showing, sessions, quota>>

reset_staff_password ==
    /\ Ready
    /\ \E u \in Actors, id \in UserIds, new_password \in ResetPasswords :
        IF AdminDenied(u)
        THEN Reply(Response("reset_staff_password", u.id, id, NoId, "denied", {}))
        ELSE IF ~Has(User, id)
        THEN Reply(Response("reset_staff_password", u.id, id, NoId, "not_found", {}))
        ELSE IF new_password = "" \/ PasswordLength(new_password) < 6
        THEN Reply(Response("reset_staff_password", u.id, id, NoId, "invalid", {}))
        ELSE /\ User' = (User \ {Get(User, id)}) \cup
                    {[Get(User, id) EXCEPT !.password = new_password]}
             /\ resp' = Response("reset_staff_password", u.id, id, NoId, "ok", {})
             /\ UNCHANGED <<Client, Property, Deal, Interaction, Showing, Task,
                            Activity, sessions, quota, inflight>>

\* ------------------------------------------------------ activity log routes

\* activity_log: the rows of the log (by position), filtered by user.  The
\* limit of 500 rows is above every log a run here writes.
activity_log ==
    /\ Ready
    /\ \E u \in Actors, user_filter \in {NoUser} \cup UserIds :
        IF AdminDenied(u)
        THEN Reply(Response("activity_log", u.id, NoId, NoId, "denied", {}))
        ELSE Reply(Response("activity_log", u.id, NoId, NoId, "ok",
                {i \in 1..Len(Activity) :
                    user_filter # NoUser => Activity[i].user_id = user_filter}))

user_activity_log ==
    /\ Ready
    /\ \E u \in Actors, user_id \in UserIds :
        IF AdminDenied(u)
        THEN Reply(Response("user_activity_log", u.id, user_id, NoId, "denied", {}))
        ELSE IF ~Has(User, user_id)
        THEN Reply(Response("user_activity_log", u.id, user_id, NoId, "not_found", {}))
        ELSE Reply(Response("user_activity_log", u.id, user_id, NoId, "ok",
                {i \in 1..Len(Activity) : Activity[i].user_id = user_id}))

\* ---------------------------------------------------------- specifications

\* Every handler, from the store init_db leaves.
Next ==
    \/ send_response
    \/ login
    \/ logout
    \/ clients
    \/ add_client
    \/ view_client
    \/ edit_client
    \/ delete_client
    \/ add_interaction
    \/ properties
    \/ add_property
    \/ view_property
    \/ edit_property
    \/ delete_property
    \/ add_showing
    \/ deals
    \/ add_deal
    \/ edit_deal
    \/ tasks
    \/ add_task
    \/ toggle_task
    \/ delete_task
    \/ add_staff
    \/ toggle_staff_status
    \/ delete_staff

Spec == Init /\ [][Next]_vars

\* The handlers a deal depends on, with the price fields of the deal forms
\* varied and a longer run.
add_deal_priced == AddDeal(PriceForms, MaxDeals)

edit_deal_priced == EditDeal(PriceForms, DealIds)

InitDeals == InitStore /\ quota = MaxDealActivities

NextDeals ==
    \/ send_response
    \/ login
    \/ add_staff
    \/ add_client
    \/ add_property
    \/ deals
    \/ add_deal_priced
    \/ edit_deal_priced

SpecDeals == InitDeals /\ [][NextDeals]_vars

\* The handlers of the monthly report, with two deals and closing dates.
add_deal_dated == AddDeal(DatedForms, MaxReportDeals)

edit_deal_dated == EditDeal(DatedForms, 1..MaxReportDeals)

InitReports == InitStore /\ quota = MaxReportActivities

NextReports ==
    \/ send_response
    \/ login
    \/ add_staff
    \/ add_client
    \/ add_property
    \/ add_deal_dated
    \/ edit_deal_dated
    \/ reports

SpecReports == InitReports /\ [][NextReports]_vars

\* The handlers of the delete cascades, with two clients and two properties.
add_client_of_two == AddClient(MaxCascadeRows)

add_interaction_of_two == AddInteraction(1..MaxCascadeRows, MaxCascadeRows)

delete_client_of_two == DeleteClient(1..MaxCascadeRows)

add_property_of_two == AddProperty(MaxCascadeRows)

add_showing_of_two == AddShowing(1..MaxCascadeRows, MaxCascadeRows)

delete_property_of_two == DeleteProperty(1..MaxCascadeRows)

InitCascade == InitStore /\ quota = MaxCascadeActivities

NextCascade ==
    \/ send_response
    \/ login
    \/ add_client_of_two
    \/ add_interaction_of_two
    \/ delete_client_of_two
    \/ add_property_of_two
    \/ add_showing_of_two
    \/ delete_property_of_two

SpecCascade == InitCascade /\ [][NextCascade]_vars

\* The staff-management and activity-log handlers.
InitStaff == InitStore /\ quota = MaxStaffActivities

NextStaff ==
    \/ send_response
    \/ login
    \/ logout
    \/ add_client
    \/ staff_list
    \/ add_staff
    \/ view_staff
    \/ edit_staff
    \/ toggle_staff_status
    \/ delete_staff
    \/ reset_staff_password
    \/ activity_log
    \/ user_activity_log

SpecStaff == InitStaff /\ [][NextStaff]_vars

\* add_staff and edit_staff requests served concurrently.
InitRace == InitStore /\ quota = MaxRaceActivities

NextRace ==
    \/ send_response
    \/ login
    \/ add_staff_begin
    \/ add_staff_commit
    \/ edit_staff_begin
    \/ edit_staff_commit

SpecRace == InitRace /\ [][NextRace]_vars

\* log_activity called with and without an authenticated user, among
\* requests that fill the store and the sessions.
InitLog == InitStore /\ quota = MaxLogActivities

NextLog ==
    \/ send_response
    \/ login
    \/ logout
    \/ add_staff
    \/ add_task
    \/ call_log_activity

SpecLog == InitLog /\ [][NextLog]_vars

\* delete_staff requests served concurrently, among the requests that
\* create the accounts, open their sessions and give them a client.
InitDeleteRace == InitStore /\ quota = MaxDeleteRaceActivities

NextDeleteRace ==
    \/ send_response
    \/ login
    \/ add_staff
    \/ add_client
    \/ delete_staff_begin
    \/ delete_staff_check
    \/ delete_staff_commit

SpecDeleteRace == InitDeleteRace /\ [][NextDeleteRace]_vars

\* The dashboard rendered over task tables longer than its limit.  The
\* stores are those left when the administrator has logged in and added the
\* agent, the agent has logged in, tasks 1..n have been added with the due
\* dates `due`, by the agent those of `others` and by the administrator the
\* rest, and the tasks of `done` have been completed.
AgentUser ==
    [id |-> 2, username |-> "agent", email |-> "agent@x",
     password |-> NewPassword, role |-> "staff", is_active |-> TRUE]

DashboardOwner(id, others) == IF id \in others THEN AgentUser.id ELSE AdminUser.id

DashboardTask(id, due, others, done) ==
    LET t == NewTask(id, DashboardOwner(id, others), due[id]) IN
    IF id \in done THEN Toggled(t) ELSE t

DashboardLog(n, others, done) ==
    << [user_id |-> AdminUser.id, action |-> "login",
        entity_type |-> "session", entity_id |-> NULL],
       [user_id |-> AgentUser.id, action |-> "login",
        entity_type |-> "session", entity_id |-> NULL] >>
    \o [id \in 1..n |->
          [user_id |-> DashboardOwner(id, others), action |-> "created",
           entity_type |-> "task", entity_id |-> id]]
    \o [k \in 1..Cardinality(done) |->
          LET id == CHOOSE x \in done :
                        Cardinality({y \in done : y < x}) = k - 1 IN
          [user_id |-> DashboardOwner(id, others), action |-> "status_change",
           entity_type |-> "task", entity_id |-> id]]

InitDashboard ==
    \E n \in 0..MaxDashboardTasks :
    \E due \in [1..n -> DueForms] :
    \E others \in SUBSET ({1} \cap 1..n), done \in SUBSET ({2} \cap 1..n) :
        /\ User = {AdminUser, AgentUser}
        /\ sessions = {AdminUser.id, AgentUser.id}
        /\ Task = {DashboardTask(id, due, others, done) : id \in 1..n}
        /\ Activity = DashboardLog(n, others, done)
        /\ Client = {}
        /\ Property = {}
        /\ Deal = {}
        /\ Interaction = {}
        /\ Showing = {}
        /\ resp = Idle
        /\ inflight = <<>>
        /\ quota = 0

NextDashboard ==
    \/ send_response
    \/ dashboard

SpecDashboard == InitDashboard /\ [][NextDashboard]_vars

\* ------------------------------------------------------------------ claims

\* The user a response was served to.
Actor(r) == Get(User, r.user)

\* The agent a deal belongs to: the agent of its client, if the client exists.
DealOwner(d) ==
    IF Has(Client, d.client_id) THEN Get(Client, d.client_id).agent_id ELSE NULL

\* The owner of the row a listing shows under an id.
ListedOwner(op, id) ==
    CASE op = "clients" -> Get(Client, id).agent_id
      [] op = "properties" -> Get(Property, id).agent_id
      [] op = "deals" -> DealOwner(Get(Deal, id))
      [] op = "tasks" -> Get(Task, id).user_id

\* C1: a client, property, deal or task listing served to a user who is not
\* admin holds no entity owned by another agent (for a deal, the agent of the
\* deal's client).
C1_ListingsOwnerScoped ==
    (/\ resp.op \in {"clients", "properties", "deals", "tasks"}
     /\ ~is_admin(Actor(resp)))
    => \A id \in resp.items : ListedOwner(resp.op, id) = resp.user

\* A non-admin user was served the deal listing while a deal of another
\* agent's client was in the store.
C1_Witness ==
    /\ resp.op = "deals"
    /\ ~is_admin(Actor(resp))
    /\ \E d \in Deal : DealOwner(d) # NULL /\ DealOwner(d) # resp.user
    /\ \A d \in Deal : DealOwner(d) # resp.user => d.id \notin resp.items

\* The handlers behind the ownership check, and the owner of the row the
\* request names (NULL when there is no such row).
OwnerOps ==
    {"view_client", "edit_client", "delete_client", "add_interaction",
     "view_property", "edit_property", "delete_property", "add_showing",
     "toggle_task", "delete_task", "edit_deal"}

TargetOwner(op, id) ==
    CASE op \in {"view_client", "edit_client", "delete_client", "add_interaction"}
           -> IF Has(Client, id) THEN Get(Client, id).agent_id ELSE NULL
      [] op \in {"view_property", "edit_property", "delete_property", "add_showing"}
           -> IF Has(Property, id) THEN Get(Property, id).agent_id ELSE NULL
      [] op \in {"toggle_task", "delete_task"}
           -> IF Has(Task, id) THEN Get(Task, id).user_id ELSE NULL
      [] op = "edit_deal"
           -> IF Has(Deal, id) THEN DealOwner(Get(Deal, id)) ELSE NULL

\* C2: a request of a non-admin user for view, edit, delete, add-interaction,
\* add-showing or toggle on a client, property or task owned by someone else,
\* or for edit on a deal whose client's agent is someone else, is denied and
\* leaves the store as it was: no row changed or removed, no Activity row added.
C2_NonOwnerDenied ==
    [][(/\ Ready
        /\ resp'.op \in OwnerOps
        /\ TargetOwner(resp'.op, resp'.id) \notin {NULL, resp'.user}
        /\ ~is_admin(Actor(resp')))
       => (resp'.status = "denied" /\ UNCHANGED <<store, sessions>>)]_vars

\* A non-admin user was denied edit_deal on a deal of another agent's client.
C2_Witness ==
    /\ resp.op = "edit_deal"
    /\ resp.status = "denied"
    /\ ~is_admin(Actor(resp))
    /\ TargetOwner(resp.op, resp.id) \notin {NULL, resp.user}

\* The handlers of view, edit and delete on a client, property or task.
ViewEditDeleteOps ==
    {"view_client", "edit_client", "delete_client",
     "view_property", "edit_property", "delete_property",
     "toggle_task", "delete_task"}

\* C3: an admin passes the ownership check on every client, property and
\* task, so no view, edit or delete request of an admin is denied.
C3_AdminPasses ==
    (/\ resp.op \in ViewEditDeleteOps
     /\ is_admin(Actor(resp)))
    => resp.status # "denied"

\* An admin was denied edit_client on a client of another agent.
C3_Failure ==
    /\ resp.op = "edit_client"
    /\ resp.status = "denied"
    /\ is_admin(Actor(resp))
    /\ TargetOwner(resp.op, resp.id) \notin {NULL, resp.user}

\* The entity type a mutating handler acts on, and the id of the row it
\* created, updated or deleted.
EntityType(op) ==
    CASE op \in {"add_client", "edit_client", "delete_client"} -> "client"
      [] op \in {"add_property", "edit_property", "delete_property"} -> "property"
      [] op \in {"add_deal", "edit_deal"} -> "deal"
      [] op \in {"add_task", "toggle_task", "delete_task"} -> "task"
      [] op = "add_showing" -> "showing"

MutatingOps ==
    {"add_client", "edit_client", "delete_client",
     "add_property", "edit_property", "delete_property",
     "add_deal", "edit_deal", "add_task", "toggle_task", "delete_task",
     "add_showing"}

EntityId(r) ==
    IF r.op \in {"add_client", "add_property", "add_deal", "add_task", "add_showing"}
    THEN r.new ELSE r.id

\* C4: every successful create, update or delete of a client, property,
\* deal, task or showing appends exactly one Activity row, whose user is the
\* acting user and whose entity_type and entity_id are those of the entity.
C4_OneActivityPerMutation ==
    [][(/\ Ready
        /\ resp'.op \in MutatingOps
        /\ resp'.status = "ok")
       => /\ Len(Activity') = Len(Activity) + 1
          /\ SubSeq(Activity', 1, Len(Activity)) = Activity
          /\ Activity'[Len(Activity')].user_id = resp'.user
          /\ Activity'[Len(Activity')].entity_type = EntityType(resp'.op)
          /\ Activity'[Len(Activity')].entity_id = EntityId(resp')]_vars

\* add_deal succeeded and the last Activity row names the new deal.
C4_Witness ==
    /\ resp.op = "add_deal"
    /\ resp.status = "ok"
    /\ Has(Deal, resp.new)
    /\ Len(Activity) > 0
    /\ Activity[Len(Activity)] =
          [user_id |-> resp.user, action |-> "created",
           entity_type |-> "deal", entity_id |-> resp.new]

\* An Activity row recording the creation of an entity.
HasCreationRecord(entity_type, id) ==
    \E i \in 1..Len(Activity) :
        /\ Activity[i].entity_type = entity_type
        /\ Activity[i].entity_id = id
        /\ Activity[i].action \in {"created", "scheduled"}

\* C5: the entity write and its audit write are one atomic unit; in every
\* persisted state a created row is in the store only if the Activity row of
\* its creation is.
C5_MutationIffAudit ==
    /\ \A c \in Client : HasCreationRecord("client", c.id)
    /\ \A p \in Property : HasCreationRecord("property", p.id)
    /\ \A d \in Deal : HasCreationRecord("deal", d.id)
    /\ \A t \in Task : HasCreationRecord("task", t.id)
    /\ \A w \in Showing : HasCreationRecord("showing", w.id)

\* The failing request: add_deal naming a property that does not exist left
\* the deal in the store and wrote no Activity row.
C5_Failure ==
    /\ resp.op = "add_deal"
    /\ resp.status = "error"
    /\ Has(Deal, resp.new)
    /\ ~HasCreationRecord("deal", resp.new)

\* C6: the audit log is append-only: no step removes an Activity row or
\* changes a field of one, whatever becomes of the entity or the account the
\* row names.
C6_LogAppendOnly ==
    [][/\ Len(Activity') >= Len(Activity)
       /\ \A i \in 1..Len(Activity) : Activity'[i] = Activity[i]]_vars

\* delete_staff was asked for an account named by Activity rows; the rows are
\* still there.
C6_Witness ==
    /\ resp.op = "delete_staff"
    /\ resp.status = "error"
    /\ \E i \in 1..Len(Activity) : Activity[i].user_id = resp.id

\* The account owns a client or a property.
Owns(id) ==
    \/ \E c \in Client : c.agent_id = id
    \/ \E p \in Property : p.agent_id = id

\* C7: delete_staff on an account that still owns a client or a property is
\* refused and changes nothing; once past the admin check and the own-account
\* check, the refusal is the conflict error.
C7_DeleteOwnerRefused ==
    [][(/\ Ready
        /\ resp'.op = "delete_staff"
        /\ Has(User, resp'.id)
        /\ Owns(resp'.id))
       => /\ UNCHANGED <<store, sessions>>
          /\ resp'.status \in {"conflict", "refused", "denied"}
          /\ (is_admin(Actor(resp')) /\ resp'.user # resp'.id)
                => resp'.status = "conflict"]_vars

\* delete_staff on an account that owns a property and no client was refused
\* with the conflict error.
C7_Witness ==
    /\ resp.op = "delete_staff"
    /\ resp.status = "conflict"
    /\ Has(User, resp.id)
    /\ \E p \in Property : p.agent_id = resp.id
    /\ ~\E c \in Client : c.agent_id = resp.id

\* C8: every client, property and task carries an owner, and the owner is an
\* account in the store.
C8_OwnersExist ==
    /\ \A c \in Client : Has(User, c.agent_id)
    /\ \A p \in Property : Has(User, p.agent_id)
    /\ \A t \in Task : Has(User, t.user_id)

\* delete_staff was asked for the owner of a task, who owns no client and no
\* property; the owner is still in the store.
C8_Witness ==
    /\ resp.op = "delete_staff"
    /\ resp.status = "error"
    /\ ~Owns(resp.id)
    /\ \E t \in Task : t.user_id = resp.id

\* The deal an add_deal or edit_deal response is about.
DealOf(r) == Get(Deal, IF r.op = "add_deal" THEN r.new ELSE r.id)

\* C9: after add_deal or edit_deal of a non-admin user succeeds, the agent of
\* the deal's client is that user.
C9_DealOwnedByActor ==
    (/\ resp.op \in {"add_deal", "edit_deal"}
     /\ resp.status = "ok"
     /\ ~is_admin(Actor(resp)))
    => DealOwner(DealOf(resp)) = resp.user

\* The first of two prices that is not NULL.
Coalesce(a, b) == IF a = NULL THEN b ELSE a

\* C10 as stated: commission_amount is (final_price if not NULL, else
\* offer_price if not NULL, else 0) * commission_rate / 100.
C10_CommissionOfFirstNonNull ==
    \A d \in Deal :
        commission_amount(d) =
            (Coalesce(Coalesce(d.final_price, d.offer_price), 0)
                * d.commission_rate) \div 100

\* The first of two prices that is neither NULL nor zero, else zero.
FirstNonZero(a, b) ==
    IF a # NULL /\ a # 0 THEN a ELSE IF b # NULL /\ b # 0 THEN b ELSE 0

\* C10 as amended: commission_amount is (final_price if neither NULL nor
\* zero, else offer_price if neither NULL nor zero, else 0) * commission_rate
\* / 100; offer 300000 with no final price at rate 3 gives 9000, and final
\* price 310000 gives 9300.
C10_CommissionOfFirstNonZero ==
    \A d \in Deal :
        /\ commission_amount(d) =
              (FirstNonZero(d.final_price, d.offer_price) * d.commission_rate)
                  \div 100
        /\ (d.offer_price = 300000 /\ d.final_price = NULL /\ d.commission_rate = 3)
              => commission_amount(d) = 9000
        /\ (d.final_price = 310000 /\ d.commission_rate = 3)
              => commission_amount(d) = 9300

\* edit_deal set a final price of 310000 on a deal offered at 300000.
C10_Witness ==
    /\ resp.op = "edit_deal"
    /\ resp.status = "ok"
    /\ Has(Deal, resp.id)
    /\ Get(Deal, resp.id).offer_price = 300000
    /\ Get(Deal, resp.id).final_price = 310000
    /\ commission_amount(Get(Deal, resp.id)) = 9300

\* The user's closed deals with a closing date in the year.
ClosedInYear(uid, year) ==
    {d \in Deal : /\ DealOwner(d) = uid
                  /\ d.status = "closed"
                  /\ d.closing_date # NULL
                  /\ YearOf(d.closing_date) = year}

\* The sum of a column of the report over its twelve rows.
RECURSIVE SumRows(_, _)
SumRows(rows, column) ==
    IF rows = {} THEN 0
    ELSE LET r == CHOOSE x \in rows : TRUE IN
         r[column] + SumRows(rows \ {r}, column)

\* C11: the twelve monthly commission figures of a report sum to the total of
\* commission_amount over the user's closed deals with a closing date in the
\* report's year; each such deal is counted in exactly one month, and a deal
\* that is not closed, has no closing date or closes in another year is
\* counted in none.
C11_MonthsSumToYear ==
    resp.op = "reports" =>
        \A year \in {r.year : r \in resp.items} :
            LET u == Actor(resp)
                counted == ClosedInYear(resp.user, year) IN
            /\ Cardinality(resp.items) = 12
            /\ SumRows(resp.items, "commission") = SumCommission(counted)
            /\ SumRows(resp.items, "deals") = Cardinality(counted)
            /\ \A d \in counted :
                  Cardinality({m \in 1..12 : d \in MonthDeals(u, year, m)}) = 1
            /\ \A d \in Deal \ counted :
                  \A m \in 1..12 : d \notin MonthDeals(u, year, m)

\* A report with two of the user's deals closed in its year, one on the first
\* day of a month, and a commission in two different months.
C11_Witness ==
    /\ resp.op = "reports"
    /\ Cardinality(ClosedInYear(resp.user, 2026)) = 2
    /\ \E d \in ClosedInYear(resp.user, 2026) : DayOf(d.closing_date) = 1
    /\ Cardinality({r \in resp.items : r.year = 2026 /\ r.commission > 0}) = 2

\* The Activity row toggle_task writes for a task.
StatusChange(uid, id) ==
    [user_id |-> uid, action |-> "status_change", entity_type |-> "task",
     entity_id |-> id]

\* C12: toggle_task by the owner of a task that is not completed sets its
\* status to completed and completed_at to the current time; on a completed
\* task it sets status to pending and clears completed_at; either way it
\* appends one status_change Activity row and changes nothing else of the
\* task.
C12_ToggleTask ==
    [][(/\ Ready
        /\ resp'.op = "toggle_task"
        /\ Has(Task, resp'.id)
        /\ Get(Task, resp'.id).user_id = resp'.user)
       => LET old == Get(Task, resp'.id)
              new == Get(Task', resp'.id) IN
          /\ resp'.status = "ok"
          /\ Task' = (Task \ {old}) \cup {new}
          /\ new.id = old.id /\ new.user_id = old.user_id
          /\ old.status # "completed"
                => new.status = "completed" /\ new.completed_at = Now
          /\ old.status = "completed"
                => new.status = "pending" /\ new.completed_at = NULL
          /\ Activity' = Append(Activity, StatusChange(resp'.user, resp'.id))]_vars

\* A task was completed and then reopened by its owner: it is pending again
\* with completed_at cleared, and the log holds both status changes.
C12_Witness ==
    /\ resp.op = "toggle_task"
    /\ resp.status = "ok"
    /\ Has(Task, resp.id)
    /\ Get(Task, resp.id).status = "pending"
    /\ Get(Task, resp.id).completed_at = NULL
    /\ Cardinality({i \in 1..Len(Activity) :
                        Activity[i] = StatusChange(resp.user, resp.id)}) = 2

\* C13: after a successful delete_client no interaction of that client
\* remains, after a successful delete_property no showing of that property
\* remains, and the interactions and showings of other clients and
\* properties are as they were.
C13_DeleteCascades ==
    [][/\ (Ready /\ resp'.op = "delete_client" /\ resp'.status = "ok")
          => /\ ~Has(Client', resp'.id)
             /\ \A i \in Interaction' : i.client_id # resp'.id
             /\ \A i \in Interaction : i.client_id # resp'.id => i \in Interaction'
             /\ Interaction' \subseteq Interaction
             /\ Showing' = Showing
       /\ (Ready /\ resp'.op = "delete_property" /\ resp'.status = "ok")
          => /\ ~Has(Property', resp'.id)
             /\ \A s \in Showing' : s.property_id # resp'.id
             /\ \A s \in Showing : s.property_id # resp'.id => s \in Showing'
             /\ Showing' \subseteq Showing
             /\ Interaction' = Interaction]_vars

\* delete_client removed a client with its interaction (number 1, since the
\* one left is number 2) and left the interaction of another client.
C13_Witness ==
    /\ resp.op = "delete_client"
    /\ resp.status = "ok"
    /\ ~Has(Client, resp.id)
    /\ \E c \in Client :
          Interaction = {[id |-> 2, client_id |-> c.id]}

\* The staff-management handlers and the activity-log views.
StaffOps ==
    {"staff_list", "add_staff", "view_staff", "edit_staff",
     "toggle_staff_status", "delete_staff", "reset_staff_password"}

ActivityLogOps == {"activity_log", "user_activity_log"}

\* C14: every staff-management request and every activity-log view of a user
\* whose role is not admin is denied, and the denied request changes no
\* account (nor anything else in the store or the sessions).
C14_AdminOnly ==
    [][(/\ Ready
        /\ resp'.op \in StaffOps \cup ActivityLogOps
        /\ ~is_admin(Actor(resp')))
       => /\ resp'.status = "denied"
          /\ resp'.items = {}
          /\ UNCHANGED <<store, sessions>>]_vars

\* A logged-in manager was denied edit_staff while a second account existed.
C14_Witness ==
    /\ resp.op = "edit_staff"
    /\ resp.status = "denied"
    /\ Actor(resp).role = "manager"
    /\ Has(User, resp.id)

\* The credentials do not log in: no account has the username, or the
\* account's password is another.
UnknownUsername(username) == ~\E u \in User : u.username = username

WrongPassword(username, password) ==
    \E u \in User : u.username = username /\ u.password # password

\* C15: a login attempt with an unknown username and one with a known
\* username and a wrong password have the same outcome: the one failure
\* response (from a browser already logged in, the one redirect), no session
\* established, no Activity row and no other change of state.
C15_LoginFailuresAlike ==
    [][(Ready /\ resp'.op = "login") =>
        \A current \in {NoUser} \cup sessions,
           username \in Usernames, password \in Passwords :
           (/\ Login(current, username, password)
            /\ UnknownUsername(username) \/ WrongPassword(username, password))
           => /\ resp' = IF current = NoUser
                         THEN Response("login", NoUser, NoId, NoId, "invalid", {})
                         ELSE Response("login", current, NoId, NoId, "redirect", {})
              /\ UNCHANGED <<store, sessions>>]_vars

\* A login attempt failed while the account "agent" existed and no account
\* "nobody" did, so that either kind of failure could have been the one.
C15_Witness ==
    /\ resp = Response("login", NoUser, NoId, NoId, "invalid", {})
    /\ \E u \in User : u.username = "agent" /\ u.password # "wrong"
    /\ UnknownUsername("nobody")
    /\ sessions # {}

\* C16: delete_staff of an admin on the admin's own account is refused, and
\* the account, with the rest of the store, stays as it was.
C16_SelfDeleteRefused ==
    [][(/\ Ready
        /\ resp'.op = "delete_staff"
        /\ resp'.id = resp'.user
        /\ is_admin(Actor(resp')))
       => /\ resp'.status = "refused"
          /\ Has(User', resp'.id)
          /\ UNCHANGED <<store, sessions>>]_vars

\* An admin who owns no client and no property was refused the delete of
\* their own account.
C16_Witness ==
    /\ resp.op = "delete_staff"
    /\ resp.status = "refused"
    /\ resp.id = resp.user
    /\ is_admin(Actor(resp))
    /\ ~Owns(resp.id)

\* C17: every deal in the store references a client and a property that
\* exist in the store.
C17_DealReferencesExist ==
    \A d \in Deal : Has(Client, d.client_id) /\ Has(Property, d.property_id)

\* The failing request: add_deal stored a deal whose client or property is
\* not in the store.
C17_Failure ==
    /\ resp.op = "add_deal"
    /\ Has(Deal, resp.new)
    /\ \/ ~Has(Client, Get(Deal, resp.new).client_id)
       \/ ~Has(Property, Get(Deal, resp.new).property_id)

\* No two accounts share a username and no two share an email.
Unique(users) ==
    \A a, b \in users :
        a.id # b.id => a.username # b.username /\ a.email # b.email

\* C18: no two accounts share a username or an email after any sequence of
\* add_staff and edit_staff requests, two of them interleaved included, and a
\* request that is rejected (by the handler's own check, or by the store when
\* its write would create a duplicate) changes no account.
C18_UsernamesAndEmailsUnique ==
    [][/\ Unique(User')
       /\ (/\ resp'.op \in {"add_staff", "edit_staff"}
           /\ resp'.status \in {"invalid", "error"})
          => User' = User]_vars

\* Of two add_staff requests that passed their checks together, the second
\* to commit was rejected by the store: its username or email is held by an
\* account that a request still waiting cannot have seen.
C18_Witness ==
    /\ resp.op = "add_staff"
    /\ resp.status = "error"
    /\ Cardinality(User) = 2
    /\ inflight = <<>>

\* C19: log_activity called when no user is authenticated appends no
\* Activity row, raises no error and changes nothing else.
C19_AnonymousLogIsNoOp ==
    [][(/\ Ready
        /\ resp'.op = "log_activity"
        /\ resp'.user = NoUser)
       => /\ resp'.status = "ok"
          /\ UNCHANGED <<store, sessions, quota>>]_vars

\* log_activity returned for the anonymous user while the log held rows and
\* another browser was logged in.
C19_Witness ==
    /\ resp.op = "log_activity"
    /\ resp.user = NoUser
    /\ resp.status = "ok"
    /\ Activity # <<>>
    /\ sessions # {}

\* C20: deactivating an account through toggle_staff_status succeeds, also
\* when the account owns clients or properties, and changes nothing but the
\* account's is_active flag: the account's other columns, the entities it
\* owns and the Activity rows that name it stay as they were.
C20_DeactivateKeepsData ==
    [][(/\ Ready
        /\ resp'.op = "toggle_staff_status"
        /\ is_admin(Actor(resp'))
        /\ Has(User, resp'.id)
        /\ Get(User, resp'.id).is_active)
       => LET member == Get(User, resp'.id) IN
          /\ resp'.status = "ok"
          /\ User' = (User \ {member}) \cup {[member EXCEPT !.is_active = FALSE]}
          /\ UNCHANGED <<Client, Property, Deal, Interaction, Showing, Task,
                         Activity, sessions>>]_vars

\* An account that owns a client and is named by Activity rows was
\* deactivated.
C20_Witness ==
    /\ resp.op = "toggle_staff_status"
    /\ resp.status = "ok"
    /\ resp.id # resp.user
    /\ ~Get(User, resp.id).is_active
    /\ \E c \in Client : c.agent_id = resp.id
    /\ \E i \in 1..Len(Activity) : Activity[i].user_id = resp.id

\* C22: a task's completed_at is set exactly when its status is completed.
C22_CompletedAtIffCompleted ==
    \A t \in Task : (t.completed_at # NULL) <=> (t.status = "completed")

\* A task was completed by toggle_task and carries the time of completion.
C22_Witness ==
    /\ resp.op = "toggle_task"
    /\ resp.status = "ok"
    /\ Has(Task, resp.id)
    /\ Get(Task, resp.id).status = "completed"
    /\ Get(Task, resp.id).completed_at = Now

\* The rows of `new` that `old` holds under the same id keep their agent_id.
OwnersKept(old, new) ==
    \A a \in old, b \in new : a.id = b.id => a.agent_id = b.agent_id

\* The rows of `new` whose id `old` does not hold were inserted by the
\* handler `op` and belong to the acting user of the response `r`.
OwnedByCreator(old, new, op, r) ==
    \A b \in new : ~Has(old, b.id) => r.op = op /\ b.agent_id = r.user

\* C23: a client or property is owned by the user who created it, and no
\* request changes the agent_id of a row that stays in the table;
\* edit_client and edit_property in particular leave it as it was.
C23_OwnerFixedAtCreation ==
    [][/\ OwnersKept(Client, Client')
       /\ OwnersKept(Property, Property')
       /\ OwnedByCreator(Client, Client', "add_client", resp')
       /\ OwnedByCreator(Property, Property', "add_property", resp')
       /\ (resp'.op = "edit_client" /\ resp'.status = "ok")
             => Get(Client', resp'.id).agent_id = Get(Client, resp'.id).agent_id
       /\ (resp'.op = "edit_property" /\ resp'.status = "ok")
             => Get(Property', resp'.id).agent_id
                    = Get(Property, resp'.id).agent_id]_vars

\* A client created by an agent who is not the administrator was edited: its
\* status changed and it still belongs to that agent.
C23_Witness ==
    /\ resp.op = "edit_client"
    /\ resp.status = "ok"
    /\ resp.user # AdminUser.id
    /\ Get(Client, resp.id).status # "lead"
    /\ Get(Client, resp.id).agent_id = resp.user

\* C24: however delete_staff requests of administrators interleave, an
\* account with the role admin remains in the store.
C24_AnAdminRemains == \E m \in User : is_admin(m)

\* Two administrators each asked to delete the other and both requests
\* passed their checks: the delete of the first has ended, refused by the
\* store, while the second is still about to delete, and both accounts are
\* in the store.
C24_Witness ==
    /\ resp.op = "delete_staff"
    /\ resp.status = "error"
    /\ Len(inflight) = 1
    /\ inflight[1].op = "delete_staff"
    /\ inflight[1].step = "delete"
    /\ inflight[1].id = resp.user
    /\ inflight[1].user = resp.id
    /\ \A id \in {resp.id, resp.user} : Has(User, id) /\ is_admin(Get(User, id))

\* C25: a login row for an account is appended to the Activity log only by
\* a login request that leaves that account with an authenticated session,
\* accounts whose is_active is false included.
C25_LoginRecordOnlyWithSession ==
    [][\A id \in UserIds :
         (/\ Len(Activity') = Len(Activity) + 1
          /\ Activity'[Len(Activity')].action = "login"
          /\ Activity'[Len(Activity')].user_id = id)
         => resp'.op = "login" /\ id \in sessions']_vars

\* A deactivated account posted its username and password: the login row
\* is the last of the log, the response is that of a successful login, and
\* the account holds no session.
C25_Failure ==
    /\ resp.op = "login"
    /\ resp.status = "ok"
    /\ Has(User, resp.user)
    /\ ~Get(User, resp.user).is_active
    /\ resp.user \notin sessions
    /\ Len(Activity) > 0
    /\ Activity[Len(Activity)].action = "login"
    /\ Activity[Len(Activity)].user_id = resp.user

\* ORDER BY due_date with the rows that have no due date last.
DueBeforeNullsLast(a, b) ==
    IF b = NULL THEN a # NULL
    ELSE a # NULL /\ a < b

\* C21: the dashboard's upcoming tasks are at most five tasks of the
\* current user with status pending, in ascending order of due date, the
\* tasks without a due date after those with one.
C21_UpcomingTasks ==
    resp.op = "dashboard" =>
        /\ Cardinality(resp.items) <= 5
        /\ \A r \in resp.items :
              /\ Has(Task, r.id)
              /\ Get(Task, r.id).user_id = resp.user
              /\ Get(Task, r.id).status = "pending"
        /\ \A r, q \in resp.items :
              r.pos < q.pos => ~DueBeforeNullsLast(Get(Task, q.id).due_date,
                                                  Get(Task, r.id).due_date)

\* The current user has six pending tasks, one of them with a due date: the
\* dashboard lists five tasks without a due date and leaves the dated one
\* out.
C21_Failure ==
    /\ resp.op = "dashboard"
    /\ Cardinality(resp.items) = UpcomingLimit
    /\ \A r \in resp.items : Get(Task, r.id).due_date = NULL
    /\ \E t \in Task : /\ t.user_id = resp.user
                       /\ t.status = "pending"
                       /\ t.due_date # NULL

====
